---- MODULE Spec2Model ----
(***************************************************************************)
(* Model of openai-models: the request executor (LLMInner::complete and    *)
(* complete_once_with_retry with ModelBilling and the debug index,         *)
(* src/src/llm.rs), and the agent turn machine (Agent::run_once,           *)
(* run_until_tool, run_until_text, src/src/agent.rs) over the tool box     *)
(* (src/src/tool.rs).                                                      *)
(*                                                                         *)
(* Money is kept in integers: one unit of spend is 1e-7 USD, a price is    *)
(* the USD price per 1e6 tokens times 10, so price * tokens is the charge  *)
(* (price * tokens) / 1e6 USD of the code in units.  f64 rounding is not   *)
(* modelled.                                                               *)
(***************************************************************************)
EXTENDS Integers, Sequences, FiniteSets, TLC

\* ------------------------------------------------------------------ bounds
\* Largest retry count a caller passes to complete_once_with_retry.
MaxRetry == 3
\* Turns a conversation is followed for.
MaxTurns == 4
\* Largest retry count when two conversations share the LLM.
MaxRetryShared == 1
\* add_tool calls made on one tool box.
MaxAdds == 3
\* Longest tool-call list of a response, and the calls of a conversation.
MaxCallsPerResp == 2
MaxCallsTotal == 3
\* Rounds of charges compared from one ModelBilling.
MaxLawRounds == 2

\* ------------------------------------------------------- program constants
\* OpenAIModel::GPT4O pricing, USD per 1e6 tokens, times 10.
Gpt4oInputX10 == 25
Gpt4oOutputX10 == 100
\* OpenAISetup::biling_cap default, USD.
DefaultCapUsd == 10
\* LLMSettings::llm_prompt_timeout default, seconds.
DefaultPromptTimeout == 120

Million == 1000 * 1000
\* Units of spend per USD (prices are times 10, token counts are per 1e6).
UnitsPerUsd == 10 * Million

\* ------------------------------------------------------------ value spaces
\* Conversations sharing one LLM (Arc<LLMInner>).
ConvIds == {"c1", "c2"}
Models == {"gpt-4o", "other"}
\* Duration passed as the per-attempt timeout: zero, some finite time, or
\* Duration::MAX.
Timeouts == {"zero", "finite", "max"}
\* The functions that call complete_once_with_retry, and the
\* llm_prompt_timeout settings they are given.
Callers == {"prompt_once_with_retry", "run_once"}
TimeoutSettings == {0, DefaultPromptTimeout}
\* Usage counters a response may carry (prompt_tokens, completion_tokens).
PromptTokenCounts == {0, 4 * Million, 5 * Million}
CompletionTokenCounts == {0, Million}
NoUsage == [present |-> FALSE, prompt_tokens |-> 0, completion_tokens |-> 0]
Usages ==
    {NoUsage} \cup
    {[present |-> TRUE, prompt_tokens |-> p, completion_tokens |-> c] :
        p \in PromptTokenCounts, c \in CompletionTokenCounts}
\* Usage counters drawn when two conversations share the LLM: none, a
\* response of 2.5 + 2 USD and one of 10 + 10 USD.
SharedUsages ==
    {NoUsage,
     [present |-> TRUE, prompt_tokens |-> Million, completion_tokens |-> Million \div 5],
     [present |-> TRUE, prompt_tokens |-> 4 * Million, completion_tokens |-> Million]}
\* Transport errors of the completion service (OpenAIError).
TransportErrors == {"E1", "E2"}

\* PromptError values the executor produces.
OpenAIErr(m) == [kind |-> "OpenAI", msg |-> m, current |-> 0]
\* eyre!("cap {} reached, current {}", cap, current) wrapped in Other.
CapErr(cur) == [kind |-> "Other", msg |-> "cap reached", current |-> cur]
\* eyre!("retry is zero?!") wrapped in Other.
RetryZeroErr == [kind |-> "Other", msg |-> "retry is zero?!", current |-> 0]

NoResp == [attempt |-> 0, usage |-> NoUsage]
NoErr == [kind |-> "", msg |-> "", current |-> 0]
\* Option<Result<CreateChatCompletionResponse, PromptError>> and Result.
None == [tag |-> "None", resp |-> NoResp, err |-> NoErr]
Ok(r) == [tag |-> "Ok", resp |-> r, err |-> NoErr]
Err(e) == [tag |-> "Err", resp |-> NoResp, err |-> e]

VARIABLES
    \* LLMInner (shared)
    model,            \* LLMInner::model
    billing,          \* LLMInner::billing: [current, cap]
    llm_debug,        \* LLMInner::llm_debug is Some(path)
    llm_debug_index,  \* LLMInner::llm_debug_index
    \* one complete_once_with_retry call per conversation
    pc,               \* where the call is
    retry,            \* the retry argument
    timeout,          \* the timeout argument
    caller,           \* who made the call, with its llm_prompt_timeout setting
    idx,              \* the for loop's idx
    last,             \* the local `last`
    resp,             \* the response create_chat returned to this attempt
    debug_fp,         \* the index on_llm_debug issued to this attempt (-1: None)
    records,          \* what became of this attempt's request and response record
    result,           \* what the call returned
    \* history of the call (not program state)
    submitted,        \* create_chat invocations made by the call
    attempts,         \* outcome of each finished attempt, in order
    chargeLog,        \* the charges made on the billing, in order
    issued,           \* the indices on_llm_debug issued, in order
    \* Agent and the loop that drives it
    mode,             \* the loop called: "tool" (run_until_tool) or "text"
    svc,              \* the responses the completion service draws from
    context,          \* Agent::context
    apc,              \* where the loop is
    action,           \* the AgentAction run_once returned
    aresult,          \* what the loop returned
    calls,            \* the tool calls handed to on_toolcalls
    ci,               \* handle_toolcalls: the next call to invoke
    resps,            \* handle_toolcalls: `resps`
    text,             \* the text handed to on_message or on_refusal
    \* history of the current turn (not program state)
    turns,            \* run_once calls made
    callsSeen,        \* tool calls received over the conversation
    turnResp,         \* the choices of the response this turn received
    ctx0,             \* the context when the turn began
    policies,         \* the policies invoked this turn, in order
    dispatched,       \* the calls handed to ToolBox::invoke this turn, in order
    invoked,          \* the calls whose Tool::invoke ran this turn, in order
    dispatchErr,      \* the error handle_toolcalls returned this turn
    recovered,        \* consecutive turns that ended in a recovered dispatch error
    \* ToolBox
    tools,            \* ToolBox::tools: name -> tool
    \* history of the tool box (not program state)
    added,            \* the tools handed to add_tool, in order
    boxOut,           \* what the last call on the box returned
    \* two spends charged side by side from one starting spend
    law               \* the charges made and the two ModelBilling they left

execVars == <<model, billing, llm_debug, llm_debug_index, pc, retry, timeout,
              caller, idx, last, resp, debug_fp, records, result, submitted,
              attempts,
              chargeLog, issued>>
agentVars == <<mode, svc, context, apc, action, aresult, calls, ci, resps, text,
               turns, callsSeen, turnResp, ctx0, policies, dispatched, invoked,
               dispatchErr, recovered>>
boxVars == <<tools, added, boxOut>>
lawVars == <<law>>
vars == <<execVars, agentVars, boxVars, lawVars>>

\* ----------------------------------------------------------- ModelBilling
\* OpenAIModel::pricing
pricing(m) ==
    IF m = "gpt-4o"
    THEN [input_tokens |-> Gpt4oInputX10, output_tokens |-> Gpt4oOutputX10]
    ELSE [input_tokens |-> 0, output_tokens |-> 0]

\* ModelBilling::new
ModelBillingNew(cap) == [current |-> 0, cap |-> cap]

\* in_cap with the comparison made strict.
in_cap_strict(b) == b.current < b.cap

\* ModelBilling::in_cap
in_cap(b) == b.current <= b.cap

\* input_tokens adding to a spend read before any charge was made.
input_tokens_stale(b, m, count) ==
    LET nb == [b EXCEPT !.current = pricing(m).input_tokens * count]
    IN [billing |-> nb, ok |-> nb.current <= nb.cap]

\* ModelBilling::input_tokens: the billing afterwards and whether it is Ok.
input_tokens(b, m, count) ==
    LET nb == [b EXCEPT !.current = b.current + pricing(m).input_tokens * count]
    IN [billing |-> nb, ok |-> in_cap(nb)]

\* output_tokens taking the cost off the spend.
output_tokens_refund(b, m, count) ==
    LET nb == [b EXCEPT !.current = b.current - pricing(m).output_tokens * count]
    IN [billing |-> nb, ok |-> nb.current <= nb.cap]

\* ModelBilling::output_tokens
output_tokens(b, m, count) ==
    LET nb == [b EXCEPT !.current = b.current + pricing(m).output_tokens * count]
    IN [billing |-> nb, ok |-> in_cap(nb)]

\* ------------------------------------------------------------------- f64
\* ModelBilling::current and cap are f64.  A finite non-negative f64 is held
\* as [m, e] with value m * 2^e, m a list of bits, the most significant
\* first, that begins and ends with 1 (zero: m = <<>>, e = 0), so that equal
\* values are equal records.  Operations round to nearest, ties to even, at
\* F64Bits significant bits, as IEEE 754 binary64 does; the exponent range is
\* not reached by a spend.
F64Bits == 53
\* Bits worked on at a time in machine integers.
Chunk == 10
\* Chunks of fraction bits a division works out: the bits kept, the leading
\* zeros of a quotient no smaller than 1/1e6, and the bits that decide the
\* rounding.
DivChunks == 8
Zeros(k) == [i \in 1..k |-> 0]
\* The lowest w bits of a natural number.
PadBits(n, w) == [i \in 1..w |-> (n \div 2^(w - i)) % 2]
RECURSIVE BitsNat(_)
\* The natural number of a short list of bits.
BitsNat(bs) ==
    IF bs = <<>> THEN 0 ELSE 2 * BitsNat(SubSeq(bs, 1, Len(bs) - 1)) + bs[Len(bs)]
RECURSIVE AddBits(_, _, _)
\* The sum of two bit lists of one length and a carry, one bit longer.
AddBits(a, b, c) ==
    LET n == Len(a)
    IN IF n <= Chunk
       THEN PadBits(BitsNat(a) + BitsNat(b) + c, n + 1)
       ELSE LET lo == BitsNat(SubSeq(a, n - Chunk + 1, n))
                        + BitsNat(SubSeq(b, n - Chunk + 1, n)) + c
            IN AddBits(SubSeq(a, 1, n - Chunk), SubSeq(b, 1, n - Chunk), lo \div 2^Chunk)
                   \o PadBits(lo % 2^Chunk, Chunk)
\* The f64 of bits * 2^e, bits being at most F64Bits long once the zeros at
\* both ends are dropped.
F64Of(bits, e) ==
    LET ones == {i \in 1..Len(bits) : bits[i] = 1}
    IN IF ones = {} THEN [m |-> <<>>, e |-> 0]
       ELSE LET f == CHOOSE i \in ones : \A j \in ones : i <= j
                l == CHOOSE i \in ones : \A j \in ones : j <= i
            IN [m |-> SubSeq(bits, f, l), e |-> e + (Len(bits) - l)]
\* bits * 2^e (and, with sticky, a little more than that) rounded to an f64.
F64Round(bits, e, sticky) ==
    LET x == F64Of(bits, e)
    IN IF Len(x.m) <= F64Bits THEN x
       ELSE LET keep == SubSeq(x.m, 1, F64Bits)
                guard == x.m[F64Bits + 1]
                rest == sticky \/ Len(x.m) > F64Bits + 1
                up == guard = 1 /\ (rest \/ keep[F64Bits] = 1)
            IN F64Of(AddBits(keep, Zeros(F64Bits), IF up THEN 1 ELSE 0),
                     x.e + Len(x.m) - F64Bits)
\* `n as f64` of a small natural number.
F64FromNat(n) == F64Of(PadBits(n, 30), 0)
\* x * (count as f64), exact while the product has few bits.
F64MulNat(x, count) == F64Of(PadBits(BitsNat(x.m) * count, 30), x.e)
RECURSIVE FracBits(_, _, _, _)
\* The fraction bits of r / d (r < d) after those in acc, k chunks more, and
\* the remainder left.
FracBits(r, d, k, acc) ==
    IF k = 0 THEN [bits |-> acc, r |-> r]
    ELSE FracBits((r * 2^Chunk) % d, d, k - 1,
                  acc \o PadBits((r * 2^Chunk) \div d, Chunk))
\* x / (d as f64) for x of few bits and a small natural d.
F64DivNat(x, d) ==
    LET n == BitsNat(x.m)
        frac == FracBits(n % d, d, DivChunks, <<>>)
    IN F64Round(PadBits(n \div d, 30) \o frac.bits, x.e - Chunk * DivChunks, frac.r # 0)
\* The bit lists of x and y over one exponent and of one length.
F64Aligned(x, y) ==
    LET e == IF x.e < y.e THEN x.e ELSE y.e
        a == x.m \o Zeros(x.e - e)
        b == y.m \o Zeros(y.e - e)
        n == IF Len(a) < Len(b) THEN Len(b) ELSE Len(a)
    IN [a |-> Zeros(n - Len(a)) \o a, b |-> Zeros(n - Len(b)) \o b, e |-> e]
\* x + y
F64Add(x, y) ==
    LET al == F64Aligned(x, y)
    IN F64Round(AddBits(al.a, al.b, 0), al.e, FALSE)
\* x <= y
F64Le(x, y) ==
    LET al == F64Aligned(x, y)
        diff == {i \in 1..Len(al.a) : al.a[i] # al.b[i]}
    IN diff = {} \/ LET i == CHOOSE k \in diff : \A j \in diff : k <= j
                    IN al.a[i] < al.b[i]

\* The executor is followed on token counts whose amounts are multiples of
\* 0.5 USD, which f64 holds and adds exactly; other counts are charged here.
\* ModelBilling::new on f64
ModelBillingF64(cap) == [current |-> F64FromNat(0), cap |-> F64FromNat(cap)]
\* ModelBilling::in_cap on f64
in_cap_f64(b) == F64Le(b.current, b.cap)
\* ModelBilling::input_tokens on f64:
\* self.current += (pricing.input_tokens * (count as f64)) / 1e6
input_tokens_f64(b, m, count) ==
    LET price == F64DivNat(F64FromNat(pricing(m).input_tokens), 10)
        cost == F64DivNat(F64MulNat(price, count), Million)
        nb == [b EXCEPT !.current = F64Add(b.current, cost)]
    IN [billing |-> nb, ok |-> in_cap_f64(nb)]
\* ModelBilling::output_tokens on f64:
\* self.current += pricing.output_tokens * (count as f64) / 1e6
output_tokens_f64(b, m, count) ==
    LET price == F64DivNat(F64FromNat(pricing(m).output_tokens), 10)
        cost == F64DivNat(F64MulNat(price, count), Million)
        nb == [b EXCEPT !.current = F64Add(b.current, cost)]
    IN [billing |-> nb, ok |-> in_cap_f64(nb)]

\* No charges are compared.
LawOff ==
    law = [tag |-> "off", round |-> 0, kind |-> "", a |-> 0, b |-> 0,
           base |-> ModelBillingF64(DefaultCapUsd),
           split |-> ModelBillingF64(DefaultCapUsd),
           whole |-> ModelBillingF64(DefaultCapUsd)]

\* The two records of an attempt: not reached, written, or failed to write.
NoRecords == [request |-> "none", response |-> "none"]
\* Result<()> of save_llm_user / save_llm_resp as the record's fate.
WriteOutcome(ok) == IF ok THEN "written" ELSE "failed"

\* -------------------------------------------------------------------- Init
\* OpenAISetup::to_llm: spend 0, debug index 0; no call started.
InitExec ==
    /\ model \in Models
    /\ billing = ModelBillingNew(DefaultCapUsd * UnitsPerUsd)
    /\ llm_debug \in BOOLEAN
    /\ llm_debug_index = 0
    /\ retry = [p \in ConvIds |-> 0]
    /\ timeout = [p \in ConvIds |-> "max"]
    /\ caller = [p \in ConvIds |-> [path |-> "", llm_prompt_timeout |-> 0]]
    /\ idx = [p \in ConvIds |-> 0]
    /\ last = [p \in ConvIds |-> None]
    /\ resp = [p \in ConvIds |-> NoResp]
    /\ debug_fp = [p \in ConvIds |-> -1]
    /\ records = [p \in ConvIds |-> NoRecords]
    /\ result = [p \in ConvIds |-> None]
    /\ submitted = [p \in ConvIds |-> 0]
    /\ attempts = [p \in ConvIds |-> <<>>]
    /\ chargeLog = <<>>
    /\ issued = <<>>

\* prompt_once_with_retry: the Duration made of llm_prompt_timeout.
PromptTimeout(secs) == IF secs = 0 THEN "max" ELSE "finite"
\* Agent::run_once: Duration::from_secs(llm_prompt_timeout).
AgentTimeout(secs) == IF secs = 0 THEN "zero" ELSE "finite"
\* The timeout argument the caller passes.
TimeoutArg(path, secs) ==
    IF path = "prompt_once_with_retry" THEN PromptTimeout(secs) ELSE AgentTimeout(secs)

\* ------------------------------------------- complete_once_with_retry
\* The call is entered with Some(retry) and Some(timeout), as both callers
\* in the repository do: `path` is the caller and `secs` its
\* llm_prompt_timeout.
Call(p, r, path, secs) ==
    /\ UNCHANGED <<agentVars, boxVars, lawVars>>
    /\ pc[p] = "idle"
    /\ retry' = [retry EXCEPT ![p] = r]
    /\ timeout' = [timeout EXCEPT ![p] = TimeoutArg(path, secs)]
    /\ caller' = [caller EXCEPT ![p] = [path |-> path, llm_prompt_timeout |-> secs]]
    /\ idx' = [idx EXCEPT ![p] = 0]
    /\ last' = [last EXCEPT ![p] = None]
    /\ pc' = [pc EXCEPT ![p] = "loop"]
    /\ UNCHANGED <<model, billing, chargeLog, llm_debug, llm_debug_index, issued, resp, debug_fp, records,
                   result, submitted, attempts>>

\* complete returned `r` inside the deadline: `last = Some(r)`, then the
\* match on `last`: Ok returns, Err logs and goes to the next idx.
AttemptReturned(p, r) ==
    /\ last' = [last EXCEPT ![p] = r]
    /\ attempts' = [attempts EXCEPT ![p] = Append(@, r)]
    /\ IF r.tag = "Ok"
       THEN /\ result' = [result EXCEPT ![p] = r]
            /\ pc' = [pc EXCEPT ![p] = "done"]
            /\ idx' = idx
       ELSE /\ idx' = [idx EXCEPT ![p] = @ + 1]
            /\ pc' = [pc EXCEPT ![p] = "loop"]
            /\ result' = result

\* The loop range taken one too far (0..=retry).
InRangeInclusive(p) == idx[p] <= retry[p]

\* `for idx in 0..retry`: the loop body runs for this idx.
InRange(p) == idx[p] < retry[p]

\* fetch_add that leaves the counter as it was.
FetchAddStale(v) == [old |-> v, new |-> v]

\* AtomicU64::fetch_add(1, SeqCst): the value read and the value stored.
FetchAdd(v) == [old |-> v, new |-> v + 1]

\* The for loop starts attempt idx: timeout(..) polls complete, which runs
\* on_llm_debug and then reaches its first suspension point: the request
\* record write when recording is on, else create_chat.
StartAttempt(p) ==
    /\ UNCHANGED <<agentVars, boxVars, lawVars>>
    /\ pc[p] = "loop"
    /\ InRange(p)
    /\ records' = [records EXCEPT ![p] = NoRecords]
    /\ IF llm_debug
       THEN /\ debug_fp' = [debug_fp EXCEPT ![p] = FetchAdd(llm_debug_index).old]
            /\ llm_debug_index' = FetchAdd(llm_debug_index).new
            /\ issued' = Append(issued, [conv |-> p, index |-> FetchAdd(llm_debug_index).old])
            /\ pc' = [pc EXCEPT ![p] = "save_user"]
            /\ submitted' = submitted
       ELSE /\ debug_fp' = [debug_fp EXCEPT ![p] = -1]
            /\ llm_debug_index' = llm_debug_index
            /\ issued' = issued
            /\ pc' = [pc EXCEPT ![p] = "create_chat"]
            /\ submitted' = [submitted EXCEPT ![p] = @ + 1]
    /\ UNCHANGED <<model, billing, chargeLog, llm_debug, retry, timeout, caller, idx, last, resp,
                   result, attempts>>

\* A failed write ending complete.
AfterSaveFailing(ok, next) == IF ok THEN next ELSE "failed"

\* `if let Err(e) = Self::save_llm_..(..).await { warn!(..) }`: where
\* complete goes on after the write, whatever its result.
AfterSave(ok, next) == next

\* save_llm_user finished, written (ok) or failed: the error is only
\* logged; complete goes on to create_chat.
SaveUser(p, ok) ==
    /\ UNCHANGED <<agentVars, boxVars, lawVars>>
    /\ pc[p] = "save_user"
    /\ timeout[p] # "zero"
    /\ records' = [records EXCEPT ![p].request = WriteOutcome(ok)]
    /\ pc' = [pc EXCEPT ![p] = AfterSave(ok, "create_chat")]
    /\ submitted' = [submitted EXCEPT ![p] = @ + 1]
    /\ UNCHANGED <<model, billing, chargeLog, llm_debug, llm_debug_index, issued, retry, timeout, caller,
                   idx, last, resp, debug_fp, result, attempts>>

\* create_chat returned a response.
ServiceRespond(p, u) ==
    /\ UNCHANGED <<agentVars, boxVars, lawVars>>
    /\ pc[p] = "create_chat"
    /\ timeout[p] # "zero"
    /\ resp' = [resp EXCEPT ![p] = [attempt |-> idx[p] + 1, usage |-> u]]
    /\ pc' = [pc EXCEPT ![p] = IF llm_debug THEN "save_resp" ELSE "usage"]
    /\ UNCHANGED <<model, billing, chargeLog, llm_debug, llm_debug_index, issued, retry, timeout, caller,
                   idx, last, debug_fp, records, result, submitted, attempts>>

\* create_chat returned an error: `?` makes complete return it.
ServiceError(p, e) ==
    /\ UNCHANGED <<agentVars, boxVars, lawVars>>
    /\ pc[p] = "create_chat"
    /\ timeout[p] # "zero"
    /\ AttemptReturned(p, Err(OpenAIErr(e)))
    /\ UNCHANGED <<model, billing, chargeLog, llm_debug, llm_debug_index, issued, retry, timeout, caller,
                   resp, debug_fp, records, submitted>>

\* save_llm_resp finished, written (ok) or failed: the error is only logged.
SaveResp(p, ok) ==
    /\ UNCHANGED <<agentVars, boxVars, lawVars>>
    /\ pc[p] = "save_resp"
    /\ records' = [records EXCEPT ![p].response = WriteOutcome(ok)]
    /\ pc' = [pc EXCEPT ![p] = AfterSave(ok, "usage")]
    /\ UNCHANGED <<model, billing, chargeLog, llm_debug, llm_debug_index, issued, retry, timeout, caller,
                   idx, last, resp, debug_fp, result, submitted, attempts>>

\* `if let Some(usage) = &resp.usage`: with usage, wait for the billing write
\* lock; without, only a warning, then the billing read lock for the log line.
CheckUsage(p) ==
    /\ UNCHANGED <<agentVars, boxVars, lawVars>>
    /\ pc[p] = "usage"
    /\ pc' = [pc EXCEPT ![p] = IF resp[p].usage.present THEN "bill_in" ELSE "bill_read"]
    /\ UNCHANGED <<model, billing, chargeLog, llm_debug, llm_debug_index, issued, retry, timeout, caller,
                   idx, last, resp, debug_fp, records, result, submitted, attempts>>

\* billing.write().await.input_tokens(..): the guard lives for the statement,
\* nothing is awaited under it.  Err makes complete return through `?`.
ChargeInput(p) ==
    /\ UNCHANGED <<agentVars, boxVars, lawVars>>
    /\ pc[p] = "bill_in"
    /\ LET c == input_tokens(billing, model, resp[p].usage.prompt_tokens)
       IN /\ billing' = c.billing
          /\ chargeLog' = Append(chargeLog,
                [conv |-> p, kind |-> "input",
                 amount |-> pricing(model).input_tokens * resp[p].usage.prompt_tokens])
          /\ IF c.ok
             THEN /\ pc' = [pc EXCEPT ![p] = "bill_out"]
                  /\ UNCHANGED <<idx, last, result, attempts>>
             ELSE AttemptReturned(p, Err(CapErr(c.billing.current)))
    /\ UNCHANGED <<model, llm_debug, llm_debug_index, issued, retry, timeout, caller, resp,
                   debug_fp, records, submitted>>

\* billing.write().await.output_tokens(..)
ChargeOutput(p) ==
    /\ UNCHANGED <<agentVars, boxVars, lawVars>>
    /\ pc[p] = "bill_out"
    /\ LET c == output_tokens(billing, model, resp[p].usage.completion_tokens)
       IN /\ billing' = c.billing
          /\ chargeLog' = Append(chargeLog,
                [conv |-> p, kind |-> "output",
                 amount |-> pricing(model).output_tokens * resp[p].usage.completion_tokens])
          /\ IF c.ok
             THEN /\ pc' = [pc EXCEPT ![p] = "bill_read"]
                  /\ UNCHANGED <<idx, last, result, attempts>>
             ELSE AttemptReturned(p, Err(CapErr(c.billing.current)))
    /\ UNCHANGED <<model, llm_debug, llm_debug_index, issued, retry, timeout, caller, resp,
                   debug_fp, records, submitted>>

\* info!(.., billing.read().await); Ok(resp)
CompleteOk(p) ==
    /\ UNCHANGED <<agentVars, boxVars, lawVars>>
    /\ pc[p] = "bill_read"
    /\ AttemptReturned(p, Ok(resp[p]))
    /\ UNCHANGED <<model, billing, chargeLog, llm_debug, llm_debug_index, issued, retry, timeout, caller,
                   resp, debug_fp, records, submitted>>

\* Where complete awaits: the deadline can elapse only there.
SuspensionPoints == {"save_user", "create_chat", "save_resp", "bill_in", "bill_out", "bill_read"}

\* The timeout arm overwriting `last`.
LastOnTimeoutCleared(p) == None

\* `Err(_) => { warn!(..); continue; }`: `last` after a timed out attempt.
LastOnTimeout(p) == last[p]

\* The deadline elapsed: the attempt's future is dropped where it waits;
\* `continue` leaves `last` as it is.
TimeoutElapsed(p) ==
    /\ UNCHANGED <<agentVars, boxVars, lawVars>>
    /\ pc[p] \in SuspensionPoints
    /\ timeout[p] # "max"
    /\ idx' = [idx EXCEPT ![p] = @ + 1]
    /\ pc' = [pc EXCEPT ![p] = "loop"]
    /\ last' = [last EXCEPT ![p] = LastOnTimeout(p)]
    /\ attempts' = [attempts EXCEPT ![p] = Append(@, None)]
    /\ UNCHANGED <<model, billing, chargeLog, llm_debug, llm_debug_index, issued, retry, timeout, caller,
                   resp, debug_fp, records, result, submitted>>

\* ok_or_eyre that hands out a successful response when `last` is None.
OkOrEyreDefault(l) == IF l.tag = "None" THEN Ok(NoResp) ELSE l

\* last.ok_or_eyre(eyre!("retry is zero?!")).map_err(PromptError::Other)
OkOrEyre(l) == IF l.tag = "None" THEN Err(RetryZeroErr) ELSE l

\* After the loop: last.ok_or_eyre(eyre!("retry is zero?!")).map_err(Other)?
Exhausted(p) ==
    /\ UNCHANGED <<agentVars, boxVars, lawVars>>
    /\ pc[p] = "loop"
    /\ ~InRange(p)
    /\ result' = [result EXCEPT ![p] = OkOrEyre(last[p])]
    /\ pc' = [pc EXCEPT ![p] = "done"]
    /\ UNCHANGED <<model, billing, chargeLog, llm_debug, llm_debug_index, issued, retry, timeout, caller,
                   idx, last, resp, debug_fp, records, submitted, attempts>>

\* ------------------------------------------------------------ agent values
\* Option<T>: <<>> is None, <<x>> is Some(x).
Some(x) == <<x>>
unwrap_or_default_str(o) == IF o = <<>> THEN "" ELSE o[1]
unwrap_or_default_vec(o) == IF o = <<>> THEN <<>> ELSE o[1]

\* A value or a PromptError the agent handles: a kind and two texts.
AVal(kind, field, value) == [kind |-> kind, field |-> field, value |-> value]
NoVal == AVal("", "", "")

\* PromptError::NoSuchTool(name)
NoSuchTool(name) == AVal("NoSuchTool", "", name)
\* PromptError::IncorrectToolCall(schema, arguments)
IncorrectToolCall(schema, arguments) == AVal("IncorrectToolCall", schema, arguments)
\* PromptError::Unexpected(text)
UnexpectedErr(s) == AVal("Unexpected", "", s)
\* PromptError::STDJSON, from serde_json::Error through `?`
StdJsonErr(raw) == AVal("STDJSON", "", raw)
\* PromptError::IO, from std::io::Error through `?`
IoErr(path) == AVal("IO", "", path)
\* PromptError::Other(eyre!("Not supported choice: ..."))
NotSupportedChoice == AVal("Other", "", "Not supported choice")
\* Errors complete_once_with_retry hands to run_once.
ExecErrors == {AVal("OpenAI", "", "E1"), AVal("Other", "", "retry is zero?!")}

\* AgentAction
Continue == [tag |-> "Continue", v |-> NoVal]
Unexpected(s) == [tag |-> "Unexpected", v |-> AVal("text", "", s)]
Out(v) == [tag |-> "Out", v |-> v]
\* Result of a loop, of a tool, of handle_toolcalls.
ROk(v) == [tag |-> "Ok", v |-> v]
RErr(e) == [tag |-> "Err", v |-> e]
RNone == [tag |-> "None", v |-> NoVal]
RPanic == [tag |-> "Panic", v |-> NoVal]
TextVal(s) == AVal("text", "", s)

\* ChatCompletionRequestMessage
SystemMsg(s) == [role |-> "system", content |-> Some(s), refusal |-> <<>>, tool_calls |-> <<>>]
UserMsg(s) == [role |-> "user", content |-> Some(s), refusal |-> <<>>, tool_calls |-> <<>>]
\* ..AssistantMessageArgs::default().tool_calls(list) with the list reversed.
AssistantToolCallsReversed(l) ==
    [role |-> "assistant", content |-> <<>>, refusal |-> <<>>,
     tool_calls |-> Some([i \in 1..Len(l) |-> l[Len(l) + 1 - i]])]
\* ..AssistantMessageArgs::default().tool_calls(list)
AssistantToolCalls(l) ==
    [role |-> "assistant", content |-> <<>>, refusal |-> <<>>, tool_calls |-> Some(l)]
\* ..AssistantMessageArgs::default().refusal(s)
AssistantRefusal(s) ==
    [role |-> "assistant", content |-> <<>>, refusal |-> Some(s), tool_calls |-> <<>>]
\* ..AssistantMessageArgs::default().content(s)
AssistantContent(s) ==
    [role |-> "assistant", content |-> Some(s), refusal |-> <<>>, tool_calls |-> <<>>]

DefaultSystem == "You are an expert agent that calls tool to complete your task."
\* Agent::new(tools, None, user)
AgentNew(user) == <<SystemMsg(DefaultSystem), UserMsg(user)>>

\* ----------------------------------------------------------------- tools
\* T::NAME of the tool run_until_tool::<T> is called with.
TargetName == "answer"
\* ToolBox::tools: the names added with add_tool.
ToolBoxTools == {"read_file", "answer"}

\* Raw argument texts the model sends.
RawA == "{\"file_path\":\"a\"}"
RawB == "{\"file_path\":\"b\"}"
RawIo == "{\"file_path\":\"io\"}"
RawAns == "{\"answer\":\"x\"}"
RawBad == "{\"file_path\":"

\* The JSON object a raw text holds (<<>>: not JSON).
JsonObject(raw) ==
    CASE raw = RawA -> Some([field |-> "file_path", value |-> "a"])
      [] raw = RawB -> Some([field |-> "file_path", value |-> "b"])
      [] raw = RawIo -> Some([field |-> "file_path", value |-> "io"])
      [] raw = RawAns -> Some([field |-> "answer", value |-> "x"])
      [] OTHER -> <<>>
\* The required field of a tool's ARGUMENTS (its schema).
ArgField(name) == IF name = "read_file" THEN "file_path" ELSE "answer"
\* serde_json::from_str::<ARGUMENTS>: Some(arguments), or <<>> on an error.
from_str(name, raw) ==
    LET o == JsonObject(raw)
    IN IF o # <<>> /\ o[1].field = ArgField(name)
       THEN Some(AVal("args", o[1].field, o[1].value))
       ELSE <<>>

\* A tool: its NAME, and which of two types declaring that NAME it is.
ToolOf(name, version) == [name |-> name, version |-> version]
\* Tool::invoke.  The first type of a name: read_file reads a (contents
\* "A"), b ("B") and fails reading io; answer echoes.  The second type of a
\* name answers with a text of its own.
ToolInvoke(tool, args) ==
    IF tool.version = 2 THEN ROk(TextVal("second " \o tool.name))
    ELSE IF tool.name = "read_file"
    THEN CASE args.value = "a" -> ROk(TextVal("A"))
           [] args.value = "b" -> ROk(TextVal("B"))
           [] OTHER -> RErr(IoErr(args.value))
    ELSE ROk(TextVal(args.value))

\* Tool::call handing out the parser's own error.
ToolCallParserError(tool, arguments) ==
    LET a == from_str(tool.name, arguments)
    IN IF a # <<>> THEN ToolInvoke(tool, a[1])
       ELSE RErr(StdJsonErr(arguments))

\* Tool::call
ToolCall(tool, arguments) ==
    LET a == from_str(tool.name, arguments)
    IN IF a # <<>> THEN ToolInvoke(tool, a[1])
       ELSE RErr(IncorrectToolCall(ArgField(tool.name), arguments))

\* ToolBox::invoke: Some(result), or <<>> for a name not in the box.
ToolBoxInvoke(tool_name, arguments) ==
    IF tool_name \in DOMAIN tools THEN Some(ToolCall(tools[tool_name], arguments)) ELSE <<>>

\* ToolBox::default()
ToolBoxDefault == [n \in {} |-> ToolOf(n, 1)]

\* add_tool that keeps the entry a name already has.
add_tool_keep(tb, tool) ==
    [n \in DOMAIN tb \cup {tool.name} |-> IF n \in DOMAIN tb THEN tb[n] ELSE tool]

\* ToolBox::add_tool: self.tools.insert(T::NAME, tool), the map afterwards.
add_tool(tb, tool) ==
    [n \in DOMAIN tb \cup {tool.name} |-> IF n = tool.name THEN tool ELSE tb[n]]

\* Tool::to_openai_obejct: the descriptor of a tool.
to_openai_obejct(tool) ==
    [name |-> tool.name, parameters |-> ArgField(tool.name), version |-> tool.version]

\* The orders a HashMap of these names may be iterated in.
IterationOrders(names) ==
    {o \in [1..Cardinality(names) -> names] : \A i, j \in DOMAIN o : i # j => o[i] # o[j]}

\* ToolBox::openai_objects: the descriptors, in one iteration order.
openai_objects(tb, order) == [i \in DOMAIN order |-> to_openai_obejct(tb[order[i]])]

\* The box an agent is given: first types of the names, added one by one.
ExampleAdds == <<ToolOf("read_file", 1), ToolOf("answer", 1)>>
ExampleBox == add_tool(add_tool(ToolBoxDefault, ExampleAdds[1]), ExampleAdds[2])

\* Nothing called on the box yet.
NoOut == [op |-> "none", name |-> "", arguments |-> "", result |-> <<>>, catalog |-> <<>>]

RECURSIVE JoinSpace(_)
\* join with a space as the separator.
JoinSpace(s) ==
    IF s = <<>> THEN ""
    ELSE IF Len(s) = 1 THEN s[1]
    ELSE s[1] \o " " \o JoinSpace(Tail(s))

\* itertools join("\n")
RECURSIVE Join(_)
Join(s) ==
    IF s = <<>> THEN ""
    ELSE IF Len(s) = 1 THEN s[1]
    ELSE s[1] \o "\n" \o Join(Tail(s))

\* ------------------------------------------------------ service responses
ToolCallOf(name, arguments) == [name |-> name, arguments |-> arguments]
Calls ==
    {ToolCallOf("read_file", RawA), ToolCallOf("read_file", RawB),
     ToolCallOf("read_file", RawIo), ToolCallOf("read_file", RawBad),
     ToolCallOf("nope", RawA),
     ToolCallOf("answer", RawAns), ToolCallOf("answer", RawBad)}
CallLists(n) == UNION {[1..k -> Calls] : k \in 0..n}

FinishReasons == {"Stop", "Length", "ToolCalls", "ContentFilter", "FunctionCall"}
Choice(fr, tc, rf, ct) ==
    [finish_reason |-> fr, tool_calls |-> tc, refusal |-> rf, content |-> ct]

Min(a, b) == IF a < b THEN a ELSE b

\* A service that answers as the data model says: a body that is one of a
\* tool-call list, a refusal or a content, with the matching finish signal.
ConversationResponses(budget) ==
    {<<Choice(<<"ToolCalls">>, Some(l), <<>>, <<>>)>> :
        l \in CallLists(Min(MaxCallsPerResp, budget))}
    \cup {<<Choice(<<"Stop">>, <<>>, Some("I cannot"), <<>>)>>,
          <<Choice(<<"ContentFilter">>, <<>>, <<>>, <<>>)>>,
          <<Choice(<<"Stop">>, <<>>, <<>>, Some("done"))>>}

\* Any first choice the response type allows, alone or followed by another
\* choice, and the empty choice list.
AnyChoices ==
    {Choice(fr, tc, rf, ct) :
        fr \in {<<>>} \cup {Some(f) : f \in FinishReasons},
        tc \in {<<>>} \cup {Some(l) : l \in CallLists(MaxCallsPerResp)},
        rf \in {<<>>, Some("I cannot")},
        ct \in {<<>>, Some("done")}}
OtherChoices ==
    {Choice(<<"Stop">>, <<>>, <<>>, Some("other")),
     Choice(<<"ToolCalls">>, Some(<<ToolCallOf("answer", RawAns)>>), <<>>, <<>>)}
AnyResponses ==
    {<<>>} \cup {<<c>> : c \in AnyChoices}
           \cup {<<c, d>> : c \in AnyChoices, d \in OtherChoices}

ServiceResponses(budget) ==
    IF svc = "any" THEN AnyResponses
    ELSE IF svc = "one call" THEN ConversationResponses(Min(1, budget))
    ELSE ConversationResponses(budget)
\* With any response allowed one turn is followed.
TurnBound == IF svc = "any" THEN 1 ELSE MaxTurns

\* ------------------------------------------------------------ Agent::run_once
\* The conditions of the if / else if chain on the first choice.
IsToolCalls(choice) ==
    \/ choice.finish_reason = <<"ToolCalls">>
    \/ Len(unwrap_or_default_vec(choice.tool_calls)) > 0
IsRefusal(choice) ==
    choice.finish_reason = <<"ContentFilter">> \/ choice.refusal # <<>>
IsMessage(choice) ==
    \/ choice.finish_reason = <<"Stop">>
    \/ choice.finish_reason = <<"Length">>
    \/ choice.content # <<>>

\* The chain with the refusal test put first.
ClassifyRefusalFirst(choice) ==
    IF IsRefusal(choice) THEN "refusal"
    ELSE IF IsToolCalls(choice) THEN "toolcalls"
    ELSE IF IsMessage(choice) THEN "message"
    ELSE "unsupported"

\* The chain with its last test dropped: what is left is a message.
ClassifyNoElse(choice) ==
    IF IsToolCalls(choice) THEN "toolcalls"
    ELSE IF IsRefusal(choice) THEN "refusal"
    ELSE "message"

\* The branch of the chain taken.
Classify(choice) ==
    IF IsToolCalls(choice) THEN "toolcalls"
    ELSE IF IsRefusal(choice) THEN "refusal"
    ELSE IF IsMessage(choice) THEN "message"
    ELSE "unsupported"

\* The message the taken branch pushes on the context.
PushedMessage(choice) ==
    CASE Classify(choice) = "toolcalls" ->
            AssistantToolCalls(unwrap_or_default_vec(choice.tool_calls))
      [] Classify(choice) = "refusal" ->
            AssistantRefusal(unwrap_or_default_str(choice.refusal))
      [] OTHER ->
            AssistantContent(unwrap_or_default_str(choice.refusal))

TurnReset ==
    /\ turns' = turns + 1
    /\ ctx0' = context
    /\ policies' = <<>>
    /\ dispatched' = <<>>
    /\ invoked' = <<>>
    /\ dispatchErr' = NoVal

\* run_once up to the call of a policy: the request is built from the
\* context, complete_once_with_retry returns an error (propagated by `?`) or
\* a response; choices.swap_remove(0) takes the first choice (and panics on
\* an empty list); the chain pushes one assistant message and picks the policy.
RunOnce ==
    /\ apc = "loop"
    /\ turns < TurnBound
    /\ TurnReset
    /\ UNCHANGED <<execVars, boxVars, lawVars, mode, svc, action, ci, resps, recovered>>
    /\ \/ \E e \in ExecErrors :
            /\ turnResp' = [ok |-> FALSE, choices |-> <<>>]
            /\ aresult' = RErr(e)
            /\ apc' = "done"
            /\ UNCHANGED <<context, calls, text, callsSeen>>
       \/ \E r \in ServiceResponses(MaxCallsTotal - callsSeen) :
            /\ turnResp' = [ok |-> TRUE, choices |-> r]
            /\ IF r = <<>>
               THEN /\ aresult' = RPanic
                    /\ apc' = "done"
                    /\ UNCHANGED <<context, calls, text, callsSeen>>
               ELSE LET choice == r[1]
                        branch == Classify(choice)
                    IN IF branch = "unsupported"
                       THEN /\ aresult' = RErr(NotSupportedChoice)
                            /\ apc' = "done"
                            /\ UNCHANGED <<context, calls, text, callsSeen>>
                       ELSE /\ context' = Append(context, PushedMessage(choice))
                            /\ aresult' = aresult
                            /\ calls' = IF branch = "toolcalls"
                                        THEN unwrap_or_default_vec(choice.tool_calls)
                                        ELSE <<>>
                            /\ callsSeen' = callsSeen + Len(calls')
                            /\ text' = CASE branch = "refusal" ->
                                                unwrap_or_default_str(choice.refusal)
                                         [] branch = "message" ->
                                                unwrap_or_default_str(choice.content)
                                         [] OTHER -> ""
                            /\ apc' = CASE branch = "toolcalls" -> "on_toolcalls"
                                        [] branch = "refusal" -> "on_refusal"
                                        [] OTHER -> "on_message"

\* --------------------------------------------------------------- policies
\* Looking for the target only at the head of the list.
FindTargetHeadOnly(toolcalls) ==
    IF toolcalls # <<>> /\ toolcalls[1].name = TargetName THEN 1 ELSE 0

\* toolcalls.iter().find(|t| t.function.name == T::NAME): the position of the
\* first call named like the target, 0 when there is none.
FindTarget(toolcalls) ==
    IF \E i \in 1..Len(toolcalls) : toolcalls[i].name = TargetName
    THEN CHOOSE i \in 1..Len(toolcalls) :
            /\ toolcalls[i].name = TargetName
            /\ \A j \in 1..(i - 1) : toolcalls[j].name # TargetName
    ELSE 0

\* The errors the run_until_tool closure turns into Continue, less one.
RecoverableInToolOnlyUnknown(e) == e.kind = "NoSuchTool"

\* The errors the run_until_tool closure turns into Continue.
RecoverableInTool(e) == e.kind \in {"NoSuchTool", "IncorrectToolCall"}

\* Every error turned into Continue.
RecoverableInTextAll(e) == TRUE

\* The errors the run_until_text closure turns into Continue.
RecoverableInText(e) == e.kind \in {"NoSuchTool", "IncorrectToolCall"}

Recoverable(e) == IF mode = "tool" THEN RecoverableInTool(e) ELSE RecoverableInText(e)

\* The on_toolcalls closure up to its first await.  run_until_tool: a call
\* named like the target ends the turn with its parsed arguments, or with the
\* serde_json error through `?`; otherwise, and always in run_until_text,
\* handle_toolcalls starts.
OnToolcalls ==
    /\ apc = "on_toolcalls"
    /\ policies' = Append(policies, "toolcalls")
    /\ UNCHANGED <<execVars, boxVars, lawVars, mode, svc, context, calls, text, turns, callsSeen,
                   turnResp, ctx0, dispatched, invoked, dispatchErr, recovered>>
    /\ LET i == FindTarget(calls)
       IN IF mode = "tool" /\ i # 0
          THEN LET td == from_str(TargetName, calls[i].arguments)
               IN IF td # <<>>
                  THEN /\ action' = Out(td[1])
                       /\ apc' = "match"
                       /\ UNCHANGED <<aresult, ci, resps>>
                  ELSE /\ aresult' = RErr(StdJsonErr(calls[i].arguments))
                       /\ apc' = "done"
                       /\ UNCHANGED <<action, ci, resps>>
          ELSE /\ ci' = 1
               /\ resps' = <<>>
               /\ apc' = "dispatch"
               /\ UNCHANGED <<action, aresult>>

\* The results collected before the error pushed as a user message.
OnDispatchErrFlush(ctx, collected) ==
    Append(ctx, UserMsg(Join(collected)))

\* `return Err(..)` inside handle_toolcalls' loop: `resps` is dropped, the
\* context is not touched.
OnDispatchErr(ctx, collected) == ctx

\* handle_toolcalls returned Err(e) to the closure: a recoverable error is
\* logged and the closure returns Continue, any other is returned.
DispatchFailed(e) ==
    /\ dispatchErr' = e
    /\ context' = OnDispatchErr(context, resps)
    /\ IF Recoverable(e)
       THEN /\ action' = Continue
            /\ apc' = "match"
            /\ aresult' = aresult
       ELSE /\ aresult' = RErr(e)
            /\ apc' = "done"
            /\ action' = action

\* One round of handle_toolcalls' loop: self.tools.invoke(name, arguments).
DispatchCall ==
    /\ apc = "dispatch"
    /\ ci <= Len(calls)
    /\ UNCHANGED <<execVars, boxVars, lawVars, mode, svc, calls, text, turns, callsSeen,
                   turnResp, ctx0, policies, recovered>>
    /\ LET call == calls[ci]
           r == ToolBoxInvoke(call.name, call.arguments)
       IN /\ dispatched' = Append(dispatched, call)
          /\ invoked' = IF r # <<>> /\ from_str(call.name, call.arguments) # <<>>
                        THEN Append(invoked, call) ELSE invoked
          /\ IF r = <<>>
             THEN /\ DispatchFailed(NoSuchTool(call.name))
                  /\ UNCHANGED <<ci, resps>>
             ELSE IF r[1].tag = "Ok"
             THEN /\ resps' = Append(resps, r[1].v.value)
                  /\ ci' = ci + 1
                  /\ UNCHANGED <<context, action, aresult, apc, dispatchErr>>
             ELSE /\ DispatchFailed(r[1].v)
                  /\ UNCHANGED <<ci, resps>>

\* append_context writing over the last message.
append_context_overwrite(ctx, s) ==
    Append(SubSeq(ctx, 1, Len(ctx) - 1), UserMsg(s))

\* Agent::append_context: self.context.push(User(content(ctx)))
append_context(ctx, s) == Append(ctx, UserMsg(s))

\* handle_toolcalls returned Ok(resps): append_context(join) and Continue.
FinishToolcalls ==
    /\ apc = "dispatch"
    /\ ci > Len(calls)
    /\ context' = append_context(context, Join(resps))
    /\ action' = Continue
    /\ apc' = "match"
    /\ UNCHANGED <<execVars, boxVars, lawVars, mode, svc, aresult, calls, ci, resps, text, turns,
                   callsSeen, turnResp, ctx0, policies, dispatched, invoked,
                   dispatchErr, recovered>>

\* on_message asking for another turn.
OnMessageActionContinue(msg) == Continue

\* on_message returning Out in both loops.
OnMessageActionOut(msg) == Out(TextVal(msg))

\* `async |_, msg| Ok(..)` given as on_message: Unexpected(msg) in
\* run_until_tool, Out(msg) in run_until_text.
OnMessageAction(msg) == IF mode = "tool" THEN Unexpected(msg) ELSE Out(TextVal(msg))

\* The on_message closure: Unexpected in run_until_tool, Out in run_until_text.
OnMessage ==
    /\ apc = "on_message"
    /\ policies' = Append(policies, "message")
    /\ action' = OnMessageAction(text)
    /\ apc' = "match"
    /\ UNCHANGED <<execVars, boxVars, lawVars, mode, svc, context, aresult, calls, ci, resps, text,
                   turns, callsSeen, turnResp, ctx0, dispatched, invoked,
                   dispatchErr, recovered>>

\* The on_refusal closure: Unexpected in both loops.
OnRefusal ==
    /\ apc = "on_refusal"
    /\ policies' = Append(policies, "refusal")
    /\ action' = Unexpected(text)
    /\ apc' = "match"
    /\ UNCHANGED <<execVars, boxVars, lawVars, mode, svc, context, aresult, calls, ci, resps, text,
                   turns, callsSeen, turnResp, ctx0, dispatched, invoked,
                   dispatchErr, recovered>>

\* The match arms with Unexpected made an error in both loops.
LoopReturnUnexpectedIsErr(a) ==
    IF a.tag = "Out" THEN ROk(a.v) ELSE RErr(UnexpectedErr(a.v.value))

\* The returning arms of `match action`: Out(s) => Ok(s); Unexpected(s) =>
\* Err(PromptError::Unexpected(s)) in run_until_tool, Ok(s) in run_until_text.
LoopReturn(a) ==
    IF a.tag = "Out" THEN ROk(a.v)
    ELSE IF mode = "tool" THEN RErr(UnexpectedErr(a.v.value))
    ELSE ROk(a.v)

\* `match action` of the loops: Continue loops; Unexpected is an error in
\* run_until_tool and the returned text in run_until_text; Out is returned.
LoopMatch ==
    /\ apc = "match"
    /\ IF action.tag = "Continue"
       THEN /\ apc' = "loop"
            /\ aresult' = aresult
            /\ recovered' = IF dispatchErr # NoVal THEN recovered + 1 ELSE 0
       ELSE /\ apc' = "done"
            /\ recovered' = recovered
            /\ aresult' = LoopReturn(action)
    /\ UNCHANGED <<execVars, boxVars, lawVars, mode, svc, context, action, calls, ci, resps, text,
                   turns, callsSeen, turnResp, ctx0, policies, dispatched,
                   invoked, dispatchErr>>

AgentOff ==
    /\ tools = ToolBoxDefault
    /\ added = <<>>
    /\ boxOut = NoOut
    /\ mode = "tool"
    /\ svc = "conversation"
    /\ context = <<>>
    /\ apc = "off"

AgentFresh ==
    /\ action = Continue
    /\ aresult = RNone
    /\ calls = <<>>
    /\ ci = 0
    /\ resps = <<>>
    /\ text = ""
    /\ turns = 0
    /\ callsSeen = 0
    /\ turnResp = [ok |-> FALSE, choices |-> <<>>]
    /\ ctx0 = <<>>
    /\ policies = <<>>
    /\ dispatched = <<>>
    /\ invoked = <<>>
    /\ dispatchErr = NoVal
    /\ recovered = 0

\* An agent built by Agent::new and handed to one of the loops.
AgentStarted(s) ==
    /\ tools = ExampleBox
    /\ added = ExampleAdds
    /\ boxOut = NoOut
    /\ mode \in {"tool", "text"}
    /\ svc = s
    /\ context = AgentNew("task")
    /\ apc = "loop"
    /\ AgentFresh

ExecOff ==
    /\ InitExec
    /\ model = "gpt-4o"
    /\ llm_debug = FALSE
    /\ pc = [p \in ConvIds |-> "off"]

NextAgent ==
    \/ RunOnce
    \/ OnToolcalls
    \/ DispatchCall
    \/ FinishToolcalls
    \/ OnMessage
    \/ OnRefusal
    \/ LoopMatch

\* A conversation with a service that answers as the data model says.
InitAgent == ExecOff /\ AgentStarted("conversation") /\ LawOff
SpecAgent == InitAgent /\ [][NextAgent]_vars
\* The same conversation with a service that asks for at most one tool call
\* in a response.
InitAgentLive == ExecOff /\ AgentStarted("one call") /\ LawOff
\* The loop's future is polled until it returns: the executor answers every
\* request, every tool returns, and the loop's own steps always run.
SpecAgentLive == InitAgentLive /\ [][NextAgent]_vars /\ WF_vars(NextAgent)

\* One turn on any response the response type allows.
InitTurn == ExecOff /\ AgentStarted("any") /\ LawOff
SpecTurn == InitTurn /\ [][NextAgent]_vars

\* -------------------------------------------------------------- ToolBox
\* Tools a program may add: two types for each name.
AddableTools == {ToolOf(n, v) : n \in ToolBoxTools, v \in {1, 2}}
\* Names and argument texts the box is asked to invoke.
InvokeNames == ToolBoxTools \cup {"nope"}
InvokeArgs == {RawA, RawAns, RawBad}

\* tools.add_tool(tool)
AddTool(tool) ==
    /\ Len(added) < MaxAdds
    /\ tools' = add_tool(tools, tool)
    /\ added' = Append(added, tool)
    /\ boxOut' = NoOut
    /\ UNCHANGED <<execVars, agentVars, lawVars>>

\* tools.invoke(tool_name, arguments).await
Invoke(tool_name, arguments) ==
    /\ boxOut' = [op |-> "invoke", name |-> tool_name, arguments |-> arguments,
                  result |-> ToolBoxInvoke(tool_name, arguments), catalog |-> <<>>]
    /\ UNCHANGED <<execVars, agentVars, lawVars, tools, added>>

\* tools.openai_objects()
OpenaiObjects ==
    /\ \E order \in IterationOrders(DOMAIN tools) :
          boxOut' = [op |-> "catalog", name |-> "", arguments |-> "", result |-> <<>>,
                     catalog |-> openai_objects(tools, order)]
    /\ UNCHANGED <<execVars, agentVars, lawVars, tools, added>>

\* A tool box built from ToolBox::default() by add_tool calls and used.
InitBox ==
    /\ ExecOff
    /\ AgentOff
    /\ AgentFresh
    /\ LawOff

NextBox ==
    \/ \E tool \in AddableTools : AddTool(tool)
    \/ \E n \in InvokeNames, a \in InvokeArgs : Invoke(n, a)
    \/ OpenaiObjects

SpecBox == InitBox /\ [][NextBox]_vars


\* ------------------------------------------------------ charges on f64
\* Token counts charged.
LawCounts == 0..3
\* The charge of one kind.
ChargeF64(kind, b, count) ==
    IF kind = "input" THEN input_tokens_f64(b, model, count)
    ELSE output_tokens_f64(b, model, count)

\* From one spend, a tokens and then b tokens are charged to one
\* ModelBilling and a + b tokens at once to a copy of it.
ChargeSplitAndWhole(kind, a, b) ==
    /\ law.tag = "ready"
    /\ law.round < MaxLawRounds
    /\ law' = [tag |-> "charged", round |-> law.round + 1, kind |-> kind,
               a |-> a, b |-> b, base |-> law.base,
               split |-> ChargeF64(kind, ChargeF64(kind, law.base, a).billing, b).billing,
               whole |-> ChargeF64(kind, law.base, a + b).billing]
    /\ UNCHANGED <<execVars, agentVars, boxVars>>

\* The spend reached becomes the starting spend of the next charges.
CarryOn ==
    /\ law.tag = "charged"
    /\ law.round < MaxLawRounds
    /\ law' = [law EXCEPT !.tag = "ready", !.base = law.split]
    /\ UNCHANGED <<execVars, agentVars, boxVars>>

InitCharge ==
    /\ ExecOff
    /\ AgentOff
    /\ AgentFresh
    /\ law = [tag |-> "ready", round |-> 0, kind |-> "", a |-> 0, b |-> 0,
              base |-> ModelBillingF64(DefaultCapUsd),
              split |-> ModelBillingF64(DefaultCapUsd),
              whole |-> ModelBillingF64(DefaultCapUsd)]

NextCharge ==
    \/ \E kind \in {"input", "output"}, a \in LawCounts, b \in LawCounts :
            ChargeSplitAndWhole(kind, a, b)
    \/ CarryOn

SpecCharge == InitCharge /\ [][NextCharge]_vars

\* One conversation calls complete_once_with_retry; no agent runs.
Init ==
    /\ InitExec
    /\ pc = [p \in ConvIds |-> IF p = "c1" THEN "idle" ELSE "off"]
    /\ AgentOff
    /\ AgentFresh
    /\ LawOff

Next ==
    \E p \in ConvIds :
        \/ \E r \in 0..MaxRetry, path \in Callers, secs \in TimeoutSettings :
                Call(p, r, path, secs)
        \/ StartAttempt(p)
        \/ \E ok \in BOOLEAN : SaveUser(p, ok)
        \/ \E u \in Usages : ServiceRespond(p, u)
        \/ \E e \in TransportErrors : ServiceError(p, e)
        \/ \E ok \in BOOLEAN : SaveResp(p, ok)
        \/ CheckUsage(p)
        \/ ChargeInput(p)
        \/ ChargeOutput(p)
        \/ CompleteOk(p)
        \/ TimeoutElapsed(p)
        \/ Exhausted(p)

Spec == Init /\ [][Next]_vars


\* Every attempt the runtime polls ends: the service answers or fails, or the
\* deadline elapses; the steps of complete_once_with_retry itself always run.
ExecStep(p) ==
    \/ StartAttempt(p)
    \/ \E ok \in BOOLEAN : SaveUser(p, ok)
    \/ \E u \in Usages : ServiceRespond(p, u)
    \/ \E e \in TransportErrors : ServiceError(p, e)
    \/ \E ok \in BOOLEAN : SaveResp(p, ok)
    \/ CheckUsage(p)
    \/ ChargeInput(p)
    \/ ChargeOutput(p)
    \/ CompleteOk(p)
    \/ TimeoutElapsed(p)
    \/ Exhausted(p)

SpecLive == Init /\ [][Next]_vars /\ \A p \in ConvIds : WF_vars(ExecStep(p))

\* Two conversations call prompt_once_with_retry on one LLM (Arc<LLMInner>)
\* at the same time: their steps interleave at every await.
InitShared ==
    /\ InitExec
    /\ model = "gpt-4o"
    /\ pc = [p \in ConvIds |-> "idle"]
    /\ AgentOff
    /\ AgentFresh
    /\ LawOff

\* Two conversations on one LLM; the record directory is writable here.
NextShared ==
    \E p \in ConvIds :
        \/ \E r \in 0..MaxRetryShared, secs \in TimeoutSettings :
                Call(p, r, "prompt_once_with_retry", secs)
        \/ StartAttempt(p)
        \/ SaveUser(p, TRUE)
        \/ \E u \in SharedUsages : ServiceRespond(p, u)
        \/ ServiceError(p, "E1")
        \/ SaveResp(p, TRUE)
        \/ CheckUsage(p)
        \/ ChargeInput(p)
        \/ ChargeOutput(p)
        \/ CompleteOk(p)
        \/ TimeoutElapsed(p)
        \/ Exhausted(p)

SpecShared == InitShared /\ [][NextShared]_vars

\* ------------------------------------------------------------ claim helpers
IsCapErr(r) == r.tag = "Err" /\ r.err.msg = "cap reached"
InAttempt == {"save_user", "create_chat", "save_resp", "usage", "bill_in", "bill_out", "bill_read"}
AllTimedOut(log) == \A i \in 1..Len(log) : log[i].tag = "None"
RECURSIVE LastReturned(_)
\* The entry of the latest attempt that returned (did not time out), or None.
LastReturned(log) ==
    IF log = <<>> THEN None
    ELSE IF log[Len(log)].tag # "None" THEN log[Len(log)]
    ELSE LastReturned(SubSeq(log, 1, Len(log) - 1))
\* The step is conversation p's input, resp. output, charge.
InputCharged(p) ==
    /\ pc[p] = "bill_in"
    /\ \/ pc'[p] = "bill_out"
       \/ Len(attempts'[p]) = Len(attempts[p]) + 1 /\ IsCapErr(attempts'[p][Len(attempts'[p])])
OutputCharged(p) ==
    /\ pc[p] = "bill_out"
    /\ \/ pc'[p] = "bill_read"
       \/ Len(attempts'[p]) = Len(attempts[p]) + 1 /\ IsCapErr(attempts'[p][Len(attempts'[p])])
\* What the step's charge returned and left behind, against the amount due.
ChargeContract(p, amount) ==
    LET failed == Len(attempts'[p]) = Len(attempts[p]) + 1
    IN /\ billing'.current = billing.current + amount
       /\ billing'.cap = billing.cap
       /\ failed <=> billing'.current > billing'.cap
       /\ failed => attempts'[p][Len(attempts'[p])].err.current = billing'.current

\* ------------------------------------------------------------------ claims

\* C1 (the specification's statement): an attempt that failed on a BudgetExceeded charge is the
\* call's last attempt: it is the last entry of the attempt history and no
\* attempt is in progress after it.
C1_BudgetExceededIsFatal ==
    \A p \in ConvIds : \A i \in 1..Len(attempts[p]) :
        IsCapErr(attempts[p][i]) => (i = Len(attempts[p]) /\ pc[p] \notin InAttempt)

\* C2: every input or output charge adds price * tokens to the spend,
\* leaves the cap alone, fails exactly when the spend after the addition is
\* strictly above the cap, and a failing charge keeps the addition (the error
\* reports the spend after it).
C2_ChargeAddsThenChecks ==
    [][\A p \in ConvIds :
        /\ InputCharged(p) =>
              ChargeContract(p, pricing(model).input_tokens * resp[p].usage.prompt_tokens)
        /\ OutputCharged(p) =>
              ChargeContract(p, pricing(model).output_tokens * resp[p].usage.completion_tokens)]_vars

\* C2 witness: cap 10.0, 2.5 USD per 1e6 input tokens, 5,000,000 tokens
\* charged from spend 0: BudgetExceeded with the spend left at 12.5.
C2_Witness ==
    \E p \in ConvIds :
        /\ billing.cap = 10 * UnitsPerUsd
        /\ billing.current = 125 * Million
        /\ attempts[p] = <<Err(CapErr(125 * Million))>>

\* C8 (the specification's statement): a call with retry > 0 whose attempts all timed out ends
\* with a result other than the one a call with retry = 0 ends with.
C8_AllTimedOutIsDistinct ==
    \A p \in ConvIds :
        (pc[p] = "done" /\ retry[p] > 0 /\ Len(attempts[p]) = retry[p] /\ AllTimedOut(attempts[p]))
            => result[p] # Err(RetryZeroErr)

\* C9: a call that ends without success after at least one attempt returned
\* an error ends with the error of the latest attempt that returned; the
\* attempts that timed out after it changed nothing.
C9_CarriesLastReturnedError ==
    \A p \in ConvIds :
        (pc[p] = "done" /\ result[p].tag = "Err" /\ ~AllTimedOut(attempts[p]))
            => result[p] = LastReturned(attempts[p])

\* C9 witness: two different errors, then a timeout; the second error is
\* what the call returns.
C9_Witness ==
    \E p \in ConvIds :
        /\ pc[p] = "done"
        /\ Len(attempts[p]) = 3
        /\ attempts[p][1].tag = "Err"
        /\ attempts[p][2].tag = "Err"
        /\ attempts[p][1] # attempts[p][2]
        /\ attempts[p][3].tag = "None"
        /\ result[p] = attempts[p][2]

\* Attempts started by the call so far.
Started(p) == Len(attempts[p]) + (IF pc[p] \in InAttempt THEN 1 ELSE 0)

C10_Counts ==
    \A p \in ConvIds :
        /\ Started(p) <= retry[p]
        /\ submitted[p] <= Started(p)
        /\ (~llm_debug /\ pc[p] # "off") => submitted[p] = Started(p)
        /\ (pc[p] = "done" /\ result[p].tag = "Ok") =>
              /\ result[p] = attempts[p][Len(attempts[p])]
              /\ result[p].resp.attempt = Len(attempts[p])
              /\ \A i \in 1..(Len(attempts[p]) - 1) : attempts[p][i].tag # "Ok"
        /\ (pc[p] = "done" /\ result[p].tag = "Err") =>
              /\ Len(attempts[p]) = retry[p]
              /\ \A i \in 1..Len(attempts[p]) : attempts[p][i].tag # "Ok"

FirstChoice == turnResp.choices[1]
GotChoice == turnResp.ok /\ turnResp.choices # <<>>
\* The tool-call list the first choice carries, in the order received.
ReceivedCalls == IF FirstChoice.tool_calls = <<>> THEN <<>> ELSE FirstChoice.tool_calls[1]
ToolCallSignal == FirstChoice.finish_reason = <<"ToolCalls">> \/ ReceivedCalls # <<>>
RefusalSignal == FirstChoice.finish_reason = <<"ContentFilter">> \/ FirstChoice.refusal # <<>>
MessageSignal ==
    FirstChoice.finish_reason \in {<<"Stop">>, <<"Length">>} \/ FirstChoice.content # <<>>
\* The assistant message that records a tool-call list.
ToolCallsRecord(l) ==
    [role |-> "assistant", content |-> <<>>, refusal |-> <<>>, tool_calls |-> <<l>>]
IsPrefix(a, b) == Len(a) <= Len(b) /\ SubSeq(b, 1, Len(a)) = a
AssistantCount(msgs) == Cardinality({i \in 1..Len(msgs) : msgs[i].role = "assistant"})
\* The turn's on_toolcalls policy has run on `calls`.
ToolcallsPolicyRan == policies = <<"toolcalls">>
HasTargetCall == \E i \in 1..Len(calls) : calls[i].name = TargetName
FirstTargetCall ==
    calls[CHOOSE i \in 1..Len(calls) :
            /\ calls[i].name = TargetName
            /\ \A j \in 1..(i - 1) : calls[j].name # TargetName]
TargetArgs == from_str(TargetName, FirstTargetCall.arguments)

\* C3: in both loops a turn whose dispatch failed with NoSuchTool or
\* IncorrectToolCall yields Continue and leaves the loop running with no
\* result; and a message that follows any number of such turns ends the loop
\* as it always does (the text in run_until_text, Unexpected in
\* run_until_tool).
C3_RecoverableDispatchErrorContinues ==
    /\ dispatchErr.kind \in {"NoSuchTool", "IncorrectToolCall"} =>
          /\ aresult = RNone
          /\ apc \in {"match", "loop"}
          /\ apc = "match" => action = Continue
    /\ (apc = "done" /\ recovered > 0 /\ policies = <<"message">>) =>
          aresult = IF mode = "text"
                    THEN ROk(TextVal(unwrap_or_default_str(FirstChoice.content)))
                    ELSE RErr(UnexpectedErr(unwrap_or_default_str(FirstChoice.content)))

\* C3 witness: three consecutive turns with a recovered dispatch error, then
\* a message ends run_until_text with its text.
C3_Witness ==
    /\ mode = "text"
    /\ recovered = 3
    /\ apc = "done"
    /\ aresult = ROk(TextVal("done"))

\* C4: in run_until_tool, when the response holds a call named like the
\* target and the first such call's arguments parse, the turn ends with
\* Out of those arguments and the loop returns them; no call of the response
\* went through the tool box and the context grew by the assistant message
\* only.
C4_TargetCallReturnsOut ==
    (mode = "tool" /\ ToolcallsPolicyRan /\ HasTargetCall /\ TargetArgs # <<>>) =>
        /\ dispatched = <<>>
        /\ invoked = <<>>
        /\ context = Append(ctx0, ToolCallsRecord(calls))
        /\ apc \in {"match", "done"}
        /\ apc = "match" => action = Out(TargetArgs[1])
        /\ apc = "done" => aresult = ROk(TargetArgs[1])

\* C4 witness: a response with an unrelated call before the target call made
\* run_until_tool return the target call's arguments.
C4_Witness ==
    /\ mode = "tool"
    /\ apc = "done"
    /\ Len(calls) = 2
    /\ calls[1].name # TargetName
    /\ calls[2].name = TargetName
    /\ aresult = ROk(AVal("args", "answer", "x"))

\* C5 (the specification's statement): in run_until_tool, when the first call named like the
\* target has arguments that do not parse, the turn does not yield Out and
\* the conversation goes on: the loop has returned nothing.
C5_TargetBadArgsIsRecoverable ==
    (mode = "tool" /\ ToolcallsPolicyRan /\ HasTargetCall /\ TargetArgs = <<>>) =>
        /\ action.tag # "Out"
        /\ aresult = RNone

\* C6: from the moment run_once has classified a response as tool calls, the
\* context is the turn's starting context followed by one assistant message
\* that records the received calls in their order; this already holds when
\* the policy is about to run and nothing was dispatched, and no second
\* assistant message follows in the turn.
C6_ToolCallsRecordedBeforeDispatch ==
    (GotChoice /\ ToolCallSignal) =>
        /\ IsPrefix(ctx0, context)
        /\ Len(context) > Len(ctx0)
        /\ context[Len(ctx0) + 1] = ToolCallsRecord(ReceivedCalls)
        /\ AssistantCount(context) = AssistantCount(ctx0) + 1
        /\ (apc = "on_toolcalls" => dispatched = <<>> /\ policies = <<>>)
        /\ (dispatched # <<>> => policies = <<"toolcalls">>)

\* C6 witness: a list of two different calls is recorded in order while the
\* policy has not run yet.
C6_Witness ==
    /\ apc = "on_toolcalls"
    /\ Len(calls) = 2
    /\ calls[1] # calls[2]
    /\ dispatched = <<>>
    /\ context[Len(context)] = ToolCallsRecord(calls)

\* The policy the first choice calls for, by the priority of the claim.
ExpectedPolicy ==
    IF ToolCallSignal THEN "toolcalls"
    ELSE IF RefusalSignal THEN "refusal"
    ELSE IF MessageSignal THEN "message"
    ELSE "unsupported"

\* C7: the first choice alone decides the turn: tool calls before refusal
\* before message; the policy of that category is the one about to run or
\* the only one that ran, with the first choice's calls or text, and a choice
\* of no category runs none.
C7_ClassificationPriority ==
    GotChoice =>
        /\ Len(policies) <= 1
        /\ policies # <<>> => policies[1] = ExpectedPolicy
        /\ apc = "on_toolcalls" => (ExpectedPolicy = "toolcalls" /\ calls = ReceivedCalls)
        /\ apc = "on_refusal" =>
              (ExpectedPolicy = "refusal" /\ text = unwrap_or_default_str(FirstChoice.refusal))
        /\ apc = "on_message" =>
              (ExpectedPolicy = "message" /\ text = unwrap_or_default_str(FirstChoice.content))
        /\ apc \in {"dispatch", "match", "loop"} => policies = <<ExpectedPolicy>>
        /\ apc = "done" =>
              IF ExpectedPolicy = "unsupported"
              THEN policies = <<>> /\ aresult = RErr(NotSupportedChoice)
              ELSE policies = <<ExpectedPolicy>>

\* C7 witness: a first choice with a tool-call list, a refusal and a content,
\* followed by another choice, was handled as tool calls.
C7_Witness ==
    /\ GotChoice
    /\ Len(turnResp.choices) = 2
    /\ ReceivedCalls # <<>>
    /\ FirstChoice.refusal # <<>>
    /\ FirstChoice.content # <<>>
    /\ policies = <<"toolcalls">>

\* ---------------------------------------------------- executor claims, cont.
\* The log entries of conversation p.
OfConv(log, p) == {i \in 1..Len(log) : log[i].conv = p}
RECURSIVE SumAmounts(_)
SumAmounts(log) ==
    IF log = <<>> THEN 0 ELSE log[Len(log)].amount + SumAmounts(SubSeq(log, 1, Len(log) - 1))

\* A call entered with retry 0 has touched nothing.
C11_Untouched ==
    \A p \in ConvIds :
        (retry[p] = 0 /\ pc[p] \in {"loop", "done"}) =>
            /\ submitted[p] = 0
            /\ attempts[p] = <<>>
            /\ debug_fp[p] = -1
            /\ OfConv(issued, p) = {}
            /\ OfConv(chargeLog, p) = {}
            /\ pc[p] = "done" => result[p] = Err(RetryZeroErr)
\* The one step such a call takes returns, and leaves index and spend alone.
C11_ReturnsAtOnce ==
    \A p \in ConvIds :
        (retry[p] = 0 /\ pc[p] = "loop" /\ pc'[p] # pc[p]) =>
            /\ pc'[p] = "done"
            /\ result'[p] = Err(RetryZeroErr)
            /\ billing' = billing
            /\ llm_debug_index' = llm_debug_index

\* C11: complete_once_with_retry entered with retry 0 returns the
\* "retry is zero?!" error in its first step: it never calls the service,
\* takes no debug index and makes no charge, whatever the other conversation
\* does meanwhile.
C11_ZeroRetryFailsAtOnce == []C11_Untouched /\ [][C11_ReturnsAtOnce]_vars

\* C11 witness: a call with retry 0 has returned the error on an LLM whose
\* spend and debug index the other conversation had already moved.
C11_Witness ==
    \E p \in ConvIds :
        /\ retry[p] = 0
        /\ pc[p] = "done"
        /\ result[p] = Err(RetryZeroErr)
        /\ billing.current > 0
        /\ llm_debug_index > 0

\* C12 (the specification's statement): a call made with llm_prompt_timeout 0
\* runs with no deadline, whoever made it: its timeout is Duration::MAX and
\* none of its attempts timed out.
C12_ZeroTimeoutIsUnbounded ==
    \A p \in ConvIds :
        (pc[p] \notin {"off", "idle"} /\ caller[p].llm_prompt_timeout = 0) =>
            /\ timeout[p] = "max"
            /\ \A i \in 1..Len(attempts[p]) : attempts[p][i].tag # "None"

\* C19: the indices on_llm_debug has issued are 0, 1, 2, ... in the order of
\* issue, so they are distinct, increasing and without a gap, the counter is
\* their number, and the index an attempt holds is one issued to its
\* conversation; with recording off none is issued.
C19_IndicesUniqueContiguous ==
    /\ llm_debug_index = Len(issued)
    /\ \A i \in 1..Len(issued) : issued[i].index = i - 1
    /\ \A p \in ConvIds :
          (debug_fp[p] # -1) =>
              \E i \in OfConv(issued, p) : issued[i].index = debug_fp[p]
    /\ ~llm_debug => issued = <<>>

\* C19 witness: both conversations hold an index at the same time, each
\* writing its request record.
C19_Witness ==
    /\ pc["c1"] = "save_user"
    /\ pc["c2"] = "save_user"
    /\ debug_fp["c1"] # debug_fp["c2"]
    /\ {debug_fp["c1"], debug_fp["c2"]} = {0, 1}

\* C20: at every moment the spend is the sum of the charges made so far by
\* both conversations, in whatever order they fell, and the cap is the one
\* the LLM was built with.
C20_SpendIsSumOfCharges ==
    /\ billing.current = SumAmounts(chargeLog)
    /\ billing.cap = DefaultCapUsd * UnitsPerUsd

\* C20 witness: the other conversation's input charge fell between c1's
\* input charge and c1's output charge, and both calls have returned.
C20_Witness ==
    /\ pc["c1"] = "done"
    /\ pc["c2"] = "done"
    /\ Len(chargeLog) >= 3
    /\ chargeLog[1].conv = "c1" /\ chargeLog[1].kind = "input" /\ chargeLog[1].amount > 0
    /\ chargeLog[2].conv = "c2" /\ chargeLog[2].kind = "input" /\ chargeLog[2].amount > 0
    /\ chargeLog[3].conv = "c1" /\ chargeLog[3].kind = "output" /\ chargeLog[3].amount > 0

\* ------------------------------------------------------- agent claims, cont.
RECURSIVE NewlineJoined(_)
\* The texts of a list, a line feed between neighbours.
NewlineJoined(l) ==
    IF l = <<>> THEN ""
    ELSE IF Len(l) = 1 THEN l[1]
    ELSE NewlineJoined(SubSeq(l, 1, Len(l) - 1)) \o "\n" \o l[Len(l)]
UserRecord(s) == [role |-> "user", content |-> <<s>>, refusal |-> <<>>, tool_calls |-> <<>>]
\* No call of the turn's list ends the loop: always so in run_until_text.
NoTerminalCall == mode = "text" \/ ~HasTargetCall
\* What the tool box answers to the i-th call of the turn.
Answer(i) == ToolBoxInvoke(calls[i].name, calls[i].arguments)
AllDispatchOk == \A i \in 1..Len(calls) : Answer(i) # <<>> /\ Answer(i)[1].tag = "Ok"
AnswerTexts == [i \in 1..Len(calls) |-> Answer(i)[1].v.value]
FirstChoiceText ==
    IF ExpectedPolicy = "refusal" THEN unwrap_or_default_str(FirstChoice.refusal)
    ELSE unwrap_or_default_str(FirstChoice.content)

\* C13: a tool-call turn with no terminal call whose dispatches all succeed
\* hands the calls to the tool box one by one in the order received with
\* only the assistant message appended meanwhile, then appends one user
\* message holding the results joined by line feeds in that order and
\* yields Continue: the context has grown by exactly two messages.
C13_AllCallsDispatchedAndJoined ==
    (ToolcallsPolicyRan /\ NoTerminalCall /\ AllDispatchOk) =>
        /\ apc \in {"dispatch", "match", "loop"}
        /\ aresult = RNone
        /\ dispatchErr = NoVal
        /\ apc = "dispatch" =>
              /\ dispatched = SubSeq(calls, 1, ci - 1)
              /\ context = Append(ctx0, ToolCallsRecord(calls))
        /\ apc \in {"match", "loop"} =>
              /\ dispatched = calls
              /\ invoked = calls
              /\ action = Continue
              /\ Len(context) = Len(ctx0) + 2
              /\ context = ctx0 \o <<ToolCallsRecord(calls),
                                      UserRecord(NewlineJoined(AnswerTexts))>>

\* C13 witness: two reads were dispatched in order and their contents were
\* appended as one user message, first result first.
C13_Witness ==
    /\ apc = "loop"
    /\ calls = <<ToolCallOf("read_file", RawB), ToolCallOf("read_file", RawA)>>
    /\ dispatched = calls
    /\ context[Len(context)] = UserRecord("B\nA")
    /\ Len(context) = Len(ctx0) + 2

\* C14: run_until_text returns a success only for a turn handled as message
\* or as refusal, and then the value is the content, resp. the refusal text;
\* such a turn ends the loop, and a tool-call turn never yields a value.
C14_TextLoopEndsOnMessageOrRefusal ==
    mode = "text" =>
        /\ (apc = "done" /\ aresult.tag = "Ok") =>
              policies \in {<<"message">>, <<"refusal">>}
        /\ policies \in {<<"message">>, <<"refusal">>} =>
              /\ apc \in {"match", "done"}
              /\ apc = "done" => aresult = ROk(TextVal(FirstChoiceText))
        /\ policies = <<"message">> => FirstChoiceText = unwrap_or_default_str(FirstChoice.content)
        /\ policies = <<"toolcalls">> =>
              /\ action = Continue
              /\ aresult.tag # "Ok"

\* C14 witness: after a tool-call turn, a refusal ended run_until_text with
\* the refusal text as its Ok value.
C14_Witness ==
    /\ mode = "text"
    /\ turns >= 2
    /\ apc = "done"
    /\ policies = <<"refusal">>
    /\ aresult = ROk(TextVal("I cannot"))

\* C15: in run_until_tool a response classified as message or as refusal
\* goes to its policy, which yields Unexpected with the text, and the loop
\* returns the error Unexpected(text): it neither continues nor returns Ok.
C15_ToolLoopMessageIsUnexpected ==
    (mode = "tool" /\ GotChoice /\ ExpectedPolicy \in {"message", "refusal"}) =>
        /\ apc \in {"on_message", "on_refusal", "match", "done"}
        /\ apc = "match" => action = [tag |-> "Unexpected", v |-> TextVal(FirstChoiceText)]
        /\ apc = "done" => aresult = RErr(UnexpectedErr(FirstChoiceText))

\* C15 witness: a content response ended run_until_tool with
\* Unexpected("done").
C15_Witness ==
    /\ mode = "tool"
    /\ apc = "done"
    /\ policies = <<"message">>
    /\ aresult = RErr(UnexpectedErr("done"))

\* C16: a dispatch error that is neither NoSuchTool nor IncorrectToolCall has
\* ended the loop, which returned that very error, the one the tool gave; the
\* turn appended no user message.
C16_OtherDispatchErrorAborts ==
    (dispatchErr # NoVal /\ dispatchErr.kind \notin {"NoSuchTool", "IncorrectToolCall"}) =>
        /\ apc = "done"
        /\ aresult = RErr(dispatchErr)
        /\ dispatched # <<>>
        /\ Answer(Len(dispatched)) = <<RErr(dispatchErr)>>
        /\ context = Append(ctx0, ToolCallsRecord(calls))

\* C16 witness: in run_until_text the second call of a response failed with
\* an I/O error and the loop returned it.
C16_Witness ==
    /\ mode = "text"
    /\ apc = "done"
    /\ Len(dispatched) = 2
    /\ dispatchErr = IoErr("io")
    /\ aresult = RErr(IoErr("io"))

\* C17: the call dispatched last had one of three outcomes: its name is not
\* in the box: NoSuchTool(name); the name is there and the arguments do not
\* parse: IncorrectToolCall(schema, raw text) and invoke did not run; else
\* invoke ran once on the parsed arguments and its text or its error came
\* back unchanged.
C17_DispatchOutcomes ==
    dispatched # <<>> =>
        LET n == Len(dispatched)
            d == dispatched[n]
            parsed == from_str(d.name, d.arguments)
        IN /\ d.name \notin DOMAIN tools =>
                 /\ dispatchErr = NoSuchTool(d.name)
                 /\ Len(invoked) = n - 1
           /\ (d.name \in DOMAIN tools /\ parsed = <<>>) =>
                 /\ dispatchErr = IncorrectToolCall(ArgField(d.name), d.arguments)
                 /\ Len(invoked) = n - 1
           /\ (d.name \in DOMAIN tools /\ parsed # <<>>) =>
                 /\ invoked = dispatched
                 /\ LET r == ToolInvoke(tools[d.name], parsed[1])
                    IN /\ r.tag = "Ok" =>
                             (dispatchErr = NoVal /\ Len(resps) = n /\ resps[n] = r.v.value)
                       /\ r.tag = "Err" => (dispatchErr = r.v /\ Len(resps) = n - 1)

\* C17 witness: a registered tool was handed arguments that do not parse and
\* the dispatch gave IncorrectToolCall with the schema and the raw text.
C17_Witness ==
    /\ dispatched = <<ToolCallOf("read_file", RawBad)>>
    /\ invoked = <<>>
    /\ dispatchErr = [kind |-> "IncorrectToolCall", field |-> "file_path", value |-> RawBad]

\* ------------------------------------------------------------ ToolBox claims
\* The names handed to add_tool so far, and the tool added last under a name.
AddedNames == {added[i].name : i \in 1..Len(added)}
LastAdded(n) ==
    added[CHOOSE i \in 1..Len(added) :
            /\ added[i].name = n
            /\ \A j \in (i + 1)..Len(added) : added[j].name # n]
\* What the tool added last under the name answers to the arguments.
LastAddedAnswer(n, raw) ==
    LET t == LastAdded(n)
        a == from_str(n, raw)
    IN IF a # <<>> THEN ToolInvoke(t, a[1])
       ELSE RErr(IncorrectToolCall(ArgField(n), raw))

\* C18: the box holds one entry for each name ever added, the tool added
\* last under it; invoking a name runs that tool; and openai_objects lists
\* one descriptor per distinct name, that of the tool added last.
C18_LastRegistrationWins ==
    /\ DOMAIN tools = AddedNames
    /\ \A n \in AddedNames : tools[n] = LastAdded(n)
    /\ boxOut.op = "invoke" =>
          boxOut.result = IF boxOut.name \in AddedNames
                          THEN <<LastAddedAnswer(boxOut.name, boxOut.arguments)>>
                          ELSE <<>>
    /\ boxOut.op = "catalog" =>
          /\ Len(boxOut.catalog) = Cardinality(AddedNames)
          /\ \A n \in AddedNames :
                Cardinality({i \in 1..Len(boxOut.catalog) : boxOut.catalog[i].name = n}) = 1
          /\ \A i \in 1..Len(boxOut.catalog) :
                boxOut.catalog[i].version = LastAdded(boxOut.catalog[i].name).version

\* C18 witness: read_file was added twice, first type then second, and
\* invoking read_file gave the second type's answer.
C18_Witness ==
    /\ added = <<ToolOf("read_file", 1), ToolOf("read_file", 2)>>
    /\ boxOut.op = "invoke"
    /\ boxOut.name = "read_file"
    /\ boxOut.arguments = RawA
    /\ boxOut.result = <<ROk(TextVal("second read_file"))>>


\* ------------------------------------------------------- recorder claims
\* What a record write must leave exactly as it was.
RecorderFrame ==
    /\ billing' = billing
    /\ chargeLog' = chargeLog
    /\ attempts' = attempts
    /\ result' = result
    /\ last' = last
    /\ resp' = resp
    /\ idx' = idx

\* C21: a write of the request record or of the response record, failed or
\* not, never ends complete: the attempt goes on to the service call, resp. to
\* the usage check, with the response, the spend, the charges and the call's
\* results untouched, so what complete returns and charges is decided by the
\* same steps as with recording off.
C21_RecorderFailureIsSwallowed ==
    [][\A p \in ConvIds :
          /\ (pc[p] = "save_user" /\ records'[p].request # "none") =>
                /\ pc'[p] = "create_chat"
                /\ RecorderFrame
          /\ (pc[p] = "save_resp" /\ records'[p].response # "none") =>
                /\ pc'[p] = "usage"
                /\ RecorderFrame]_vars

\* C21 witness: both records of the attempt failed to write, and complete
\* returned the response after charging for it.
C21_Witness ==
    /\ llm_debug
    /\ pc["c1"] = "done"
    /\ result["c1"].tag = "Ok"
    /\ records["c1"] = [request |-> "failed", response |-> "failed"]
    /\ Len(chargeLog) = 2
    /\ billing.current > 0

\* C28: with recording on every attempt started has taken exactly one index,
\* before its request record and before the service call, and keeps it taken
\* when the attempt fails or times out; the request record is settled before
\* the service is called and the response record only once this attempt holds
\* a response; with recording off the counter stays 0 and nothing is recorded.
C28_OneIndexPerAttempt ==
    /\ llm_debug =>
          \A p \in ConvIds :
              /\ Cardinality(OfConv(issued, p)) = Started(p)
              /\ \A i, j \in OfConv(issued, p) :
                    i < j => issued[i].index < issued[j].index
              /\ pc[p] \in InAttempt =>
                    /\ debug_fp[p] # -1
                    /\ \E i \in OfConv(issued, p) :
                          /\ issued[i].index = debug_fp[p]
                          /\ \A j \in OfConv(issued, p) : j <= i
              /\ pc[p] = "save_user" => records[p] = [request |-> "none", response |-> "none"]
              /\ pc[p] = "save_user" => submitted[p] < Started(p)
              /\ pc[p] \in {"create_chat", "save_resp"} =>
                    /\ records[p].request # "none"
                    /\ records[p].response = "none"
                    /\ submitted[p] >= 1
              /\ records[p].response # "none" =>
                    /\ records[p].request # "none"
                    /\ resp[p].attempt = Cardinality(OfConv(issued, p))
    /\ ~llm_debug =>
          /\ llm_debug_index = 0
          /\ issued = <<>>
          /\ \A p \in ConvIds :
                /\ debug_fp[p] = -1
                /\ records[p] = [request |-> "none", response |-> "none"]

\* C28 witness: three attempts of one call, the first timed out, the second
\* failed in the service, the third holds the third index.
C28_Witness ==
    /\ llm_debug
    /\ Len(attempts["c1"]) = 2
    /\ attempts["c1"][1].tag = "None"
    /\ attempts["c1"][2].tag = "Err"
    /\ pc["c1"] = "create_chat"
    /\ debug_fp["c1"] = 2
    /\ llm_debug_index = 3


C27_BothChargesApplied ==
    \A p \in ConvIds :
        (pc[p] \in {"loop", "done"} /\ attempts[p] # <<>>
            /\ attempts[p][Len(attempts[p])].tag # "None"
            /\ resp[p].attempt = Len(attempts[p])) =>
                IF resp[p].usage.present
                THEN /\ Len(chargeLog) >= 2
                     /\ chargeLog[Len(chargeLog) - 1] =
                            [conv |-> p, kind |-> "input",
                             amount |-> Gpt4oInputX10 * resp[p].usage.prompt_tokens
                                            * (IF model = "gpt-4o" THEN 1 ELSE 0)]
                     /\ chargeLog[Len(chargeLog)] =
                            [conv |-> p, kind |-> "output",
                             amount |-> Gpt4oOutputX10 * resp[p].usage.completion_tokens
                                            * (IF model = "gpt-4o" THEN 1 ELSE 0)]
                ELSE /\ attempts[p][Len(attempts[p])].tag = "Ok"
                     /\ (Len(attempts[p]) = 1 => chargeLog = <<>>)


\* C29 (the specification's statement): once an attempt has failed on the cap
\* the spend is above it, and the next attempt that receives usage counters is
\* still submitted, still charged its prompt and its completion tokens (zero
\* tokens included) and only then fails with the cap error.
C29_ChargedWhateverTheSpend ==
    \A p \in ConvIds :
        (pc[p] \in {"loop", "done"} /\ Len(attempts[p]) >= 2
            /\ IsCapErr(attempts[p][Len(attempts[p]) - 1])
            /\ attempts[p][Len(attempts[p])].tag # "None"
            /\ resp[p].attempt = Len(attempts[p])
            /\ resp[p].usage.present) =>
                /\ submitted[p] >= 2
                /\ IsCapErr(attempts[p][Len(attempts[p])])
                /\ billing.current > billing.cap
                /\ Len(chargeLog) >= 3
                /\ chargeLog[Len(chargeLog) - 1].kind = "input"
                /\ chargeLog[Len(chargeLog) - 1].amount =
                       pricing(model).input_tokens * resp[p].usage.prompt_tokens
                /\ chargeLog[Len(chargeLog)].kind = "output"
                /\ chargeLog[Len(chargeLog)].amount =
                       pricing(model).output_tokens * resp[p].usage.completion_tokens


\* ------------------------------------------------------- context claims
\* C22: every step of a loop leaves the context it found as a prefix of the
\* context it leaves, so no message is removed, reordered or rewritten, and
\* the system and user message of Agent::new stay at positions 1 and 2.
C22_ContextAppendOnly ==
    [][/\ Len(context) <= Len(context')
       /\ \A i \in 1..Len(context) : context'[i] = context[i]
       /\ Len(context') >= 2
       /\ context'[1] = [role |-> "system", content |-> <<DefaultSystem>>,
                         refusal |-> <<>>, tool_calls |-> <<>>]
       /\ context'[2] = [role |-> "user", content |-> <<"task">>,
                         refusal |-> <<>>, tool_calls |-> <<>>]]_vars

\* C22 witness: after two tool-call turns and a final message the context
\* holds the seeds, then assistant and user messages in the order pushed.
C22_Witness ==
    /\ apc = "done"
    /\ turns = 3
    /\ Len(context) = 7
    /\ context[3].role = "assistant" /\ context[3].tool_calls # <<>>
    /\ context[4].role = "user"
    /\ context[5].role = "assistant" /\ context[5].tool_calls # <<>>
    /\ context[6].role = "user"
    /\ context[7].role = "assistant" /\ context[7].tool_calls = <<>>


\* The turn's call of the executor returned an error.
ExecutorFailed == turns >= 1 /\ ~turnResp.ok
\* The first choice carries none of the signals of the three categories.
NoSignal == GotChoice /\ ~ToolCallSignal /\ ~RefusalSignal /\ ~MessageSignal

\* C25: a turn whose executor call failed returns that error, a turn whose
\* first choice fits no category returns the not-supported error; in both no
\* policy has run, no tool was dispatched and the context is the one the turn
\* began with.
C25_FailedTurnLeavesContext ==
    /\ ExecutorFailed =>
          /\ apc = "done"
          /\ aresult.tag = "Err"
          /\ aresult.v \in {[kind |-> "OpenAI", field |-> "", value |-> "E1"],
                            [kind |-> "Other", field |-> "", value |-> "retry is zero?!"]}
          /\ policies = <<>>
          /\ dispatched = <<>>
          /\ context = ctx0
    /\ NoSignal =>
          /\ apc = "done"
          /\ aresult = [tag |-> "Err",
                        v |-> [kind |-> "Other", field |-> "", value |-> "Not supported choice"]]
          /\ policies = <<>>
          /\ dispatched = <<>>
          /\ context = ctx0

\* C25 witness: the first choice has the function-call signal, an empty
\* tool-call list and neither refusal nor content; the turn has failed.
C25_Witness ==
    /\ NoSignal
    /\ FirstChoice.finish_reason = <<"FunctionCall">>
    /\ FirstChoice.tool_calls = <<<<>>>>
    /\ apc = "done"
    /\ aresult.tag = "Err"
    /\ Len(context) = 2

\* C26 (the specification's statement): a turn classified as a message
\* appends the assistant message whose content is the response's content
\* text, the text the on-message policy receives.
C26_MessageCarriesContent ==
    (GotChoice /\ ~ToolCallSignal /\ ~RefusalSignal /\ MessageSignal
        /\ policies = <<"message">>) =>
            /\ text = (IF FirstChoice.content = <<>> THEN "" ELSE FirstChoice.content[1])
            /\ context = Append(ctx0,
                    [role |-> "assistant", content |-> <<text>>,
                     refusal |-> <<>>, tool_calls |-> <<>>])


\* The turn's dispatch stopped on an unknown tool or on arguments that do not
\* fit the tool.
RecoverableStop == dispatchErr.kind \in {"NoSuchTool", "IncorrectToolCall"}

\* C30: when the dispatch of a response's calls stops at call i on an unknown
\* tool or on unfit arguments, calls 1..i have been handed to the tool box and
\* exactly calls 1..i-1 invoked, no later call was touched, the turn added
\* only the assistant tool-call message to the context, and the next turn
\* starts from a context that ends with that message.
C30_PartialDispatchLeavesNoResult ==
    (RecoverableStop /\ policies = <<"toolcalls">>) =>
        LET i == Len(dispatched)
        IN /\ i >= 1 /\ i <= Len(calls)
           /\ dispatched = SubSeq(calls, 1, i)
           /\ invoked = SubSeq(calls, 1, i - 1)
           /\ Len(resps) = i - 1
           /\ context = Append(ctx0,
                  [role |-> "assistant", content |-> <<>>, refusal |-> <<>>,
                   tool_calls |-> <<calls>>])
           /\ apc \in {"match", "loop"}
           /\ apc = "match" => action = [tag |-> "Continue", v |-> [kind |-> "", field |-> "", value |-> ""]]
           /\ apc = "loop" => recovered >= 1

\* C30 witness: the first call succeeded, the second named an unknown tool,
\* and the loop is about to send the next request.
C30_Witness ==
    /\ RecoverableStop
    /\ apc = "loop"
    /\ Len(calls) = 2
    /\ Len(dispatched) = 2
    /\ Len(invoked) = 1
    /\ resps # <<>>
    /\ dispatchErr.kind = "NoSuchTool"
    /\ context[Len(context)].role = "assistant"


\* C24 (the specification's statement): from one starting spend, charging a
\* tokens and then b tokens leaves the spend that charging a + b tokens at
\* once leaves.
C24_ChargingIsAdditive ==
    law.tag = "charged" => law.split.current = law.whole.current


\* ---------------------------------------------------------- last claims
\* C31 (the specification's statement), on the attempts the deadline ended:
\* an attempt that received a response with usage counters and was then
\* abandoned has made both charges for it, the completion-token charge last.
C31_ReceivedResponsesCharged ==
    \A p \in ConvIds :
        (pc[p] \in {"loop", "done"} /\ attempts[p] # <<>>
            /\ attempts[p][Len(attempts[p])].tag = "None"
            /\ resp[p].attempt = Len(attempts[p])
            /\ resp[p].usage.present) =>
                /\ Len(chargeLog) >= 2
                /\ chargeLog[Len(chargeLog) - 1] =
                       [conv |-> p, kind |-> "input",
                        amount |-> pricing(model).input_tokens * resp[p].usage.prompt_tokens]
                /\ chargeLog[Len(chargeLog)] =
                       [conv |-> p, kind |-> "output",
                        amount |-> pricing(model).output_tokens * resp[p].usage.completion_tokens]

\* C33 (the specification's statement): a successful response with an empty
\* choice list makes run_once return an error, the context left as it was.
C33_EmptyChoicesIsAnError ==
    (turns >= 1 /\ turnResp.ok /\ turnResp.choices = <<>>) =>
        /\ aresult.tag = "Err"
        /\ context = ctx0


\* The turn received a response that ends the loop: a message, a refusal,
\* or, in run_until_tool, a call named like the target.
TerminalTurn ==
    \/ apc \in {"on_message", "on_refusal"}
    \/ apc = "on_toolcalls" /\ mode = "tool" /\ HasTargetCall
\* The turn that just ended was one of those, or failed.
EndedTerminal ==
    \/ policies \in {<<"message">>, <<"refusal">>}
    \/ policies = <<"toolcalls">> /\ mode = "tool" /\ HasTargetCall
    \/ aresult.tag \in {"Err", "Panic"}
\* A tool-call turn that ended with Continue hands control back to the loop,
\* nothing returned, the context longer than the turn found it.
ContinueLoops ==
    (apc = "match" /\ action.tag = "Continue") =>
        /\ policies = <<"toolcalls">>
        /\ apc' = "loop"
        /\ aresult' = [tag |-> "None", v |-> [kind |-> "", field |-> "", value |-> ""]]
        /\ Len(context') > Len(ctx0)

\* C32: the loops return only from a turn with a terminal outcome or a fatal
\* error, and no count of turns makes them return; a turn that received a
\* terminal response leads to the return; a tool-call turn, successful or
\* recoverably failing, leads back to the next request with a longer context.
C32_ReturnsOnlyOnTerminalTurn ==
    /\ [](apc = "done" => EndedTerminal)
    /\ [](apc = "loop" => aresult.tag = "None")
    /\ [][ContinueLoops]_vars
    /\ TerminalTurn ~> (apc = "done")

\* C32 witness: three tool-call turns, one of them recoverably failing, have
\* not ended the loop: it is about to send the fourth request, the context
\* grown at every turn.
C32_Witness ==
    /\ apc = "loop"
    /\ turns = 3
    /\ aresult.tag = "None"
    /\ dispatchErr.kind = "NoSuchTool"
    /\ Len(context) >= 7

====
